---- MODULE Spec2Model ----
(***************************************************************************)
(* Model of the HTTP route layer of node-todo-api (server/server.js).      *)
(*                                                                         *)
(* Every route handler is one action: the synchronous part of the handler, *)
(* the single document-store operation it issues and the promise callback  *)
(* that answers.  The store operations are atomic per document, so a       *)
(* handler's effect on the store is the effect of its one operation.       *)
(* The todo routes and the user routes share no state (two collections),   *)
(* so they are explored apart: Spec runs the todo routes, UserSpec the     *)
(* user routes.  The input fail of a handler is the document store         *)
(* failing the operation for a reason of its own (a lost connection).      *)
(*                                                                         *)
(* For the last request served the model keeps the request (req), the      *)
(* store as it was when the request arrived (prev), every call of          *)
(* res.send in the order the handler made them (sent, as status codes),    *)
(* the body of the first of them (resBody) and the number of store         *)
(* operations the handler issued (storeOps).  The response the client      *)
(* receives is the first send; Express throws on any later one.            *)
(*                                                                         *)
(* Ids: the integers 1, 2, ... stand for well-formed 24-hex-digit          *)
(* ObjectIds, 0 stands for a malformed id such as "123".                   *)
(* Texts are sequences of characters, " " being whitespace.                *)
(* JSON values of body.completed are the tokens "true", "false" (the two   *)
(* booleans), "string" (a truthy non-boolean) and "undefined" (omitted).   *)
(***************************************************************************)
EXTENDS Integers, Sequences, FiniteSets, TLC

VARIABLES todos, nextId, now, prev, req, sent, resBody, storeOps,
          users, nextUserId, stages

vars == <<todos, nextId, now, prev, req, sent, resBody, storeOps,
          users, nextUserId, stages>>

-----------------------------------------------------------------------------
(* Bounds of the model *)

MaxTodos == 2
MaxTime == 2
MaxUsers == 2
MaxTokens == 2

(* completedAt: null *)
Null == 0

-----------------------------------------------------------------------------
(* Inputs *)

MalformedId == 0
TodoIds == 1..MaxTodos
RequestIds == {MalformedId} \cup TodoIds

(* texts sent to POST /todos: empty, whitespace alone, plain, padded *)
PostTexts == {<< >>, <<" ">>, <<"a">>, <<" ", "a">>}
(* texts sent to PATCH /todos/:id: without surrounding whitespace, so that  *)
(* the stored text does not depend on whether the driver runs the schema's *)
(* trim on a $set                                                          *)
PatchTexts == {<<"b">>}
CompletedValues == {"true", "false", "string", "undefined"}

PostBodies ==
    {[hasText |-> TRUE, text |-> t] : t \in PostTexts}
        \cup {[hasText |-> FALSE, text |-> << >>]}

PatchBodies ==
    {[hasText |-> TRUE, text |-> t, completed |-> c] :
        t \in PatchTexts, c \in CompletedValues}
        \cup {[hasText |-> FALSE, text |-> << >>, completed |-> c] :
                c \in CompletedValues}

-----------------------------------------------------------------------------
(* Todo model and its store operations *)

RECURSIVE TrimLeft(_)
TrimLeft(s) == IF s # << >> /\ Head(s) = " " THEN TrimLeft(Tail(s)) ELSE s

RECURSIVE TrimRight(_)
TrimRight(s) ==
    IF s # << >> /\ s[Len(s)] = " " THEN TrimRight(SubSeq(s, 1, Len(s) - 1)) ELSE s

Trim(s) == TrimRight(TrimLeft(s))

(* new Todo({text}): the schema trims text and defaults the other fields *)
NewTodo(doc) ==
    [text |-> Trim(doc.text), completed |-> FALSE, completedAt |-> Null]

(* validation run by save(): text is required and non-empty once trimmed *)
TodoValidates(doc) == doc.hasText /\ Trim(doc.text) # << >>

Insert(store, id, todo) ==
    [i \in DOMAIN store \cup {id} |-> IF i = id THEN todo ELSE store[i]]

Remove(store, id) == [i \in DOMAIN store \ {id} |-> store[i]]

(* {$set: set} on one document: the fields named in set are replaced *)
ApplySet(todo, set) ==
    [text |-> IF set.hasText THEN set.text ELSE todo.text,
     completed |-> set.completed,
     completedAt |-> set.completedAt]

Update(store, id, set) ==
    [i \in DOMAIN store |-> IF i = id THEN ApplySet(store[i], set) ELSE store[i]]

(* the JSON a todo document is sent as *)
TodoJson(id, todo) ==
    [kind |-> "todo", id |-> id, text |-> todo.text,
     completed |-> todo.completed, completedAt |-> todo.completedAt]

EmptyBody == [kind |-> "empty"]
ErrorBody == [kind |-> "error"]

-----------------------------------------------------------------------------
(* server.js *)

ObjectIdIsValid(id) == id # MalformedId

IsBoolean(v) == v \in {"true", "false"}

PostDoc_WrongField(body) == [hasText |-> FALSE, text |-> << >>]

(* POST /todos: the document handed to the Todo constructor *)
PostDoc(body) == [hasText |-> body.hasText, text |-> body.text]

PostSends_AlwaysOk(saved) == <<200>>

(* POST /todos: the two callbacks of save().then *)
PostSends(saved) == IF saved THEN <<200>> ELSE <<400>>

PostTodos(body, fail) ==
    /\ nextId <= MaxTodos
    /\ LET doc == PostDoc(body)
           id == nextId
           saved == ~fail /\ TodoValidates(doc)
       IN /\ nextId' = nextId + 1
          /\ prev' = todos
          /\ todos' = IF saved THEN Insert(todos, id, NewTodo(doc)) ELSE todos
          /\ sent' = PostSends(saved)
          /\ resBody' = IF saved THEN TodoJson(id, NewTodo(doc)) ELSE ErrorBody
          /\ storeOps' = 1
          /\ req' = [route |-> "POST /todos", body |-> body, fail |-> fail]
    /\ stages' = <<"handler">>
    /\ UNCHANGED <<now, users, nextUserId>>

(* GET /todos: the two callbacks of find().then *)
GetTodosSends(rejected) == IF rejected THEN <<400>> ELSE <<200>>

GetTodos(fail) ==
    /\ prev' = todos
    /\ sent' = GetTodosSends(fail)
    /\ resBody' = IF fail THEN ErrorBody ELSE [kind |-> "todos", todos |-> todos]
    /\ storeOps' = 1
    /\ req' = [route |-> "GET /todos", fail |-> fail]
    /\ stages' = <<"handler">>
    /\ UNCHANGED <<todos, nextId, now, users, nextUserId>>

GetTodoSends_NoCheck(valid, rejected, found) ==
    IF ~valid THEN <<400>>
    ELSE IF rejected THEN <<404>>
    ELSE <<200>>

(* GET /todos/:id: every res.send the handler calls, in order.  After the   *)
(* 404 of the not-found branch the handler does not return: it sends 200,  *)
(* which throws, and the catch callback sends 404 again.                   *)
GetTodoSends(valid, rejected, found) ==
    IF ~valid THEN <<400>>
    ELSE IF rejected THEN <<404>>
    ELSE IF ~found THEN <<404, 200, 404>>
    ELSE <<200>>

GetTodo(id, fail) ==
    /\ LET valid == ObjectIdIsValid(id)
           found == id \in DOMAIN todos
       IN /\ sent' = GetTodoSends(valid, fail, found)
          /\ resBody' = IF valid /\ ~fail /\ found
                          THEN TodoJson(id, todos[id])
                          ELSE IF valid THEN EmptyBody ELSE ErrorBody
          /\ storeOps' = IF valid THEN 1 ELSE 0
    /\ prev' = todos
    /\ req' = [route |-> "GET /todos/:id", id |-> id, fail |-> fail]
    /\ stages' = <<"handler">>
    /\ UNCHANGED <<todos, nextId, now, users, nextUserId>>

(* DELETE /todos/:id: every res.send the handler calls, in order *)
DeleteSends(valid, rejected, found) ==
    IF ~valid THEN <<400>>
    ELSE IF rejected THEN <<404>>
    ELSE IF ~found THEN <<404>>
    ELSE <<200>>

DeleteStoreOp_Find(store, id) == store

(* DELETE /todos/:id: Todo.findByIdAndRemove(id) *)
DeleteStoreOp(store, id) == Remove(store, id)

DeleteTodo(id, fail) ==
    /\ LET valid == ObjectIdIsValid(id)
           found == id \in DOMAIN todos
       IN /\ sent' = DeleteSends(valid, fail, found)
          /\ resBody' = IF valid /\ ~fail /\ found
                          THEN TodoJson(id, todos[id])
                          ELSE EmptyBody
          /\ storeOps' = IF valid THEN 1 ELSE 0
          /\ todos' = IF valid /\ ~fail THEN DeleteStoreOp(todos, id) ELSE todos
    /\ prev' = todos
    /\ req' = [route |-> "DELETE /todos/:id", id |-> id, fail |-> fail]
    /\ stages' = <<"handler">>
    /\ UNCHANGED <<nextId, now, users, nextUserId>>

PatchSet_Truthy(body, time) ==
    IF body.completed \in {"true", "string"}
      THEN [hasText |-> body.hasText, text |-> body.text,
            completed |-> TRUE, completedAt |-> time]
      ELSE [hasText |-> body.hasText, text |-> body.text,
            completed |-> FALSE, completedAt |-> Null]

PatchSet_KeepsCompletedAt(body, time) ==
    IF IsBoolean(body.completed) /\ body.completed = "true"
      THEN [hasText |-> body.hasText, text |-> body.text,
            completed |-> TRUE, completedAt |-> time]
      ELSE [hasText |-> body.hasText, text |-> body.text,
            completed |-> FALSE, completedAt |-> time]

(* PATCH /todos/:id: _.pick(req.body, ['text', 'completed']) and the       *)
(* completedAt the handler computes                                        *)
PatchSet(body, time) ==
    IF IsBoolean(body.completed) /\ body.completed = "true"
      THEN [hasText |-> body.hasText, text |-> body.text,
            completed |-> TRUE, completedAt |-> time]
      ELSE [hasText |-> body.hasText, text |-> body.text,
            completed |-> FALSE, completedAt |-> Null]

(* PATCH /todos/:id: whether Todo.findByIdAndUpdate is called.  The bad-id  *)
(* branch sends 400 and does not return, so the call is always made.       *)
PatchCallsStore(valid) == TRUE

PatchSends_Fault(valid, rejected, found) ==
    IF ~valid THEN <<400, 400>>
    ELSE IF rejected THEN <<500>>
    ELSE IF ~found THEN <<404, 200, 400>>
    ELSE <<200>>

(* PATCH /todos/:id: every res.send the handler calls, in order.  A         *)
(* malformed id is answered 400 and still passed to findByIdAndUpdate,     *)
(* whose cast of the id rejects, so the catch callback sends 400 again;    *)
(* the not-found branch sends 404, then 200 (which throws), then the 400   *)
(* of the catch callback.                                                  *)
PatchSends(valid, rejected, found) ==
    IF ~valid THEN <<400, 400>>
    ELSE IF rejected THEN <<400>>
    ELSE IF ~found THEN <<404, 200, 400>>
    ELSE <<200>>

PatchTodo(id, body, fail) ==
    /\ LET valid == ObjectIdIsValid(id)
           set == PatchSet(body, now)
           found == valid /\ id \in DOMAIN todos
           rejected == fail \/ ~valid
           updated == IF found /\ ~rejected THEN Update(todos, id, set) ELSE todos
       IN /\ sent' = PatchSends(valid, rejected, found)
          /\ storeOps' = IF PatchCallsStore(valid) THEN 1 ELSE 0
          /\ todos' = IF PatchCallsStore(valid) THEN updated ELSE todos
          /\ resBody' = IF found /\ ~rejected
                          THEN TodoJson(id, updated[id])
                          ELSE EmptyBody
    /\ prev' = todos
    /\ req' = [route |-> "PATCH /todos/:id", id |-> id, body |-> body, fail |-> fail,
               at |-> now]
    /\ stages' = <<"handler">>
    /\ UNCHANGED <<nextId, now, users, nextUserId>>

(* new Date().getTime() grows as time passes *)
Tick ==
    /\ now < MaxTime
    /\ now' = now + 1
    /\ UNCHANGED <<todos, nextId, prev, req, sent, resBody, storeOps,
                   users, nextUserId, stages>>

-----------------------------------------------------------------------------
(* User model, its store operations and the authentication middleware *)

Emails == {"a@example.com", "b@example.com", "and"}
MalformedEmails == {"and"}
Passwords == {"123jkl", "password!", "123"}
ShortPasswords == {"123"}

NoToken == [present |-> FALSE]
SignedToken(uid, serial) ==
    [present |-> TRUE, uid |-> uid, serial |-> serial, signed |-> TRUE]
RequestTokens ==
    {NoToken} \cup
    {[present |-> TRUE, uid |-> u, serial |-> k, signed |-> b] :
        u \in 1..MaxUsers, k \in 1..MaxTokens, b \in BOOLEAN}

(* the stored form of a password: a salted hash, never the plaintext *)
Hash(password) == <<"hash", password>>

UserValidates(store, body) ==
    /\ body.email \notin MalformedEmails
    /\ body.password \notin ShortPasswords
    /\ \A u \in DOMAIN store : store[u].email # body.email

(* user.toJSON(): the id and the email *)
UserJson(id, user, token) ==
    [kind |-> "user", id |-> id, email |-> user.email, token |-> token]

(* generateAuthToken(): the next token of the user *)
AuthToken(id, tokens) == SignedToken(id, Len(tokens) + 1)

(* User.findByCredentials(email, password): the ids of the matching users *)
FindByCredentials(store, email, password) ==
    {u \in DOMAIN store :
        store[u].email = email /\ store[u].password = Hash(password)}

(* User.findByToken(token): the ids of the users the token resolves to *)
FindByToken(store, token) ==
    IF token.present /\ token.signed
      THEN {u \in DOMAIN store :
              u = token.uid /\ \E i \in 1..Len(store[u].tokens) : store[u].tokens[i] = token}
      ELSE {}

(* authenticate: the user attached to the request, or none *)
Authenticate(store, token, fail) ==
    IF fail THEN {} ELSE FindByToken(store, token)

(* POST /users *)
PostUsers(body, fail) ==
    /\ nextUserId <= MaxUsers
    /\ LET id == nextUserId
           token == AuthToken(id, << >>)
           user == [email |-> body.email, password |-> Hash(body.password),
                    tokens |-> <<token>>]
           saved == ~fail /\ UserValidates(users, body)
       IN /\ nextUserId' = nextUserId + 1
          /\ users' = IF saved THEN Insert(users, id, user) ELSE users
          /\ sent' = IF saved THEN <<200>> ELSE <<400>>
          /\ resBody' = IF saved THEN UserJson(id, user, token) ELSE ErrorBody
    /\ storeOps' = 1
    /\ stages' = <<"handler">>
    /\ req' = [route |-> "POST /users", body |-> body, fail |-> fail]
    /\ UNCHANGED <<todos, nextId, now, prev>>

(* POST /users/login *)
PostUsersLogin(body, fail) ==
    /\ LET match == IF fail THEN {} ELSE FindByCredentials(users, body.email, body.password)
       IN IF match = {}
            THEN /\ sent' = <<400>>
                 /\ resBody' = EmptyBody
                 /\ storeOps' = 1
                 /\ UNCHANGED users
            ELSE \E id \in match :
                   /\ Len(users[id].tokens) < MaxTokens
                   /\ LET token == AuthToken(id, users[id].tokens)
                          user == [users[id] EXCEPT !.tokens = Append(@, token)]
                      IN /\ users' = [users EXCEPT ![id] = user]
                         /\ sent' = <<200>>
                         /\ resBody' = UserJson(id, user, token)
                         /\ storeOps' = 2
    /\ stages' = <<"handler">>
    /\ req' = [route |-> "POST /users/login", body |-> body, fail |-> fail]
    /\ UNCHANGED <<todos, nextId, now, prev, nextUserId>>

GetUsersMe_NoAuth(token, fail) ==
    /\ sent' = <<200>>
    /\ resBody' = EmptyBody
    /\ stages' = <<"handler">>
    /\ storeOps' = 0
    /\ req' = [route |-> "GET /users/me", token |-> token, fail |-> fail]
    /\ UNCHANGED <<todos, nextId, now, prev, users, nextUserId>>

(* GET /users/me: authenticate, then the handler *)
GetUsersMe(token, fail) ==
    /\ LET found == Authenticate(users, token, fail)
       IN IF found = {}
            THEN /\ sent' = <<401>>
                 /\ resBody' = EmptyBody
                 /\ stages' = <<"authenticate">>
            ELSE \E id \in found :
                   /\ sent' = <<200>>
                   /\ resBody' = UserJson(id, users[id], NoToken)
                   /\ stages' = <<"authenticate", "handler">>
    /\ storeOps' = IF token.present THEN 1 ELSE 0
    /\ req' = [route |-> "GET /users/me", token |-> token, fail |-> fail]
    /\ UNCHANGED <<todos, nextId, now, prev, users, nextUserId>>

UserBodies == [email : Emails, password : Passwords]

-----------------------------------------------------------------------------

Init ==
    /\ todos = [i \in {} |-> NewTodo([text |-> << >>])]
    /\ nextId = 1
    /\ now = 1
    /\ prev = todos
    /\ req = [route |-> "none"]
    /\ sent = << >>
    /\ resBody = EmptyBody
    /\ storeOps = 0
    /\ users = [i \in {} |-> [email |-> "", password |-> Hash(""), tokens |-> << >>]]
    /\ nextUserId = 1
    /\ stages = << >>

Next ==
    \/ \E body \in PostBodies, fail \in BOOLEAN : PostTodos(body, fail)
    \/ \E fail \in BOOLEAN : GetTodos(fail)
    \/ \E id \in RequestIds, fail \in BOOLEAN : GetTodo(id, fail)
    \/ \E id \in RequestIds, fail \in BOOLEAN : DeleteTodo(id, fail)
    \/ \E id \in RequestIds, body \in PatchBodies, fail \in BOOLEAN :
           PatchTodo(id, body, fail)
    \/ Tick

Spec == Init /\ [][Next]_vars

UserNext ==
    \/ \E body \in UserBodies, fail \in BOOLEAN : PostUsers(body, fail)
    \/ \E body \in UserBodies, fail \in BOOLEAN : PostUsersLogin(body, fail)
    \/ \E token \in RequestTokens, fail \in BOOLEAN : GetUsersMe(token, fail)

UserSpec == Init /\ [][UserNext]_vars

-----------------------------------------------------------------------------
(* Properties *)

IdRoutes == {"GET /todos/:id", "DELETE /todos/:id", "PATCH /todos/:id"}

(* the status of the response the client receives: the first send *)
Status == sent[1]

(* C1: a malformed todo id is answered 400 by GET, DELETE and PATCH        *)
(* /todos/:id and no operation is issued against the document store.       *)
C1_MalformedIdNoStoreAccess ==
    (req.route \in IdRoutes /\ ~ObjectIdIsValid(req.id))
        => (Status = 400 /\ storeOps = 0)

(* C2: PATCH /todos/:id on an existing todo answers 200 with the updated   *)
(* todo; completed true (the boolean) stores completed = TRUE and          *)
(* completedAt = the time of the request, a number; anything else stores   *)
(* completed = FALSE and completedAt = null; a supplied text replaces the  *)
(* stored text, an omitted text leaves it.                                 *)
C2_PatchComputesCompletedAt ==
    (req.route = "PATCH /todos/:id" /\ req.id \in DOMAIN prev /\ ~req.fail)
        => /\ sent = <<200>>
           /\ req.id \in DOMAIN todos
           /\ IF req.body.completed = "true"
                THEN /\ todos[req.id].completed = TRUE
                     /\ todos[req.id].completedAt = req.at
                     /\ todos[req.id].completedAt \in 1..MaxTime
                ELSE /\ todos[req.id].completed = FALSE
                     /\ todos[req.id].completedAt = Null
           /\ todos[req.id].text =
                 IF req.body.hasText THEN req.body.text ELSE prev[req.id].text
           /\ resBody = [kind |-> "todo", id |-> req.id,
                         text |-> todos[req.id].text,
                         completed |-> todos[req.id].completed,
                         completedAt |-> todos[req.id].completedAt]
           /\ \A i \in DOMAIN prev \ {req.id} : i \in DOMAIN todos /\ todos[i] = prev[i]

C2_Witness ==
    /\ req.route = "PATCH /todos/:id"
    /\ req.id \in DOMAIN prev
    /\ ~req.fail
    /\ req.body.completed = "true"
    /\ req.body.hasText
    /\ prev[req.id].text # req.body.text
    /\ todos[req.id].completedAt = MaxTime
    /\ sent = <<200>>

(* a store failure on a request that is otherwise in order *)
StoreFailure ==
    /\ req.route \in IdRoutes \cup {"POST /todos", "GET /todos"}
    /\ req.fail
    /\ req.route \in IdRoutes => ObjectIdIsValid(req.id)

NoServerFault == \A i \in 1..Len(sent) : sent[i] < 500

C4_DeleteRemovesExactlyOne ==
    /\ (req.route = "DELETE /todos/:id" /\ req.id \in DOMAIN prev /\ ~req.fail)
          => /\ sent = <<200>>
             /\ resBody.kind = "todo"
             /\ resBody.id = req.id
             /\ DOMAIN todos = DOMAIN prev \ {req.id}
             /\ \A i \in DOMAIN todos : todos[i] = prev[i]
    /\ (req.route \in {"GET /todos/:id", "DELETE /todos/:id"}
          /\ ObjectIdIsValid(req.id) /\ req.id \notin DOMAIN prev)
          => Status = 404
    /\ \A i \in DOMAIN todos \ DOMAIN prev : req.route = "POST /todos"

C4_Witness ==
    /\ req.route = "DELETE /todos/:id"
    /\ req.id \in DOMAIN prev
    /\ ~req.fail
    /\ sent = <<200>>
    /\ resBody.id = req.id
    /\ DOMAIN todos # {}
    /\ req.id \notin DOMAIN todos

(* what POST /todos does when it creates: one todo more, with the given    *)
(* text, not completed; the others as they were                            *)
Created(text) ==
    /\ sent = <<200>>
    /\ Cardinality(DOMAIN todos) = Cardinality(DOMAIN prev) + 1
    /\ \A i \in DOMAIN prev : i \in DOMAIN todos /\ todos[i] = prev[i]
    /\ \A i \in DOMAIN todos \ DOMAIN prev :
          /\ todos[i] = [text |-> text, completed |-> FALSE, completedAt |-> Null]
          /\ resBody = [kind |-> "todo", id |-> i, text |-> text,
                        completed |-> FALSE, completedAt |-> Null]

(* C5 as stated: POST /todos with any non-empty text t answers 200 and     *)
(* stores exactly one more todo, with text = t, completed = FALSE and      *)
(* completedAt = null, the others unchanged.                               *)
C5_PostCreatesWithText ==
    (req.route = "POST /todos" /\ req.body.hasText /\ req.body.text # << >>
        /\ ~req.fail)
        => Created(req.body.text)

(* C5 as amended: POST /todos with a text t that is non-empty once its     *)
(* surrounding whitespace is trimmed answers 200 and stores exactly one    *)
(* more todo, with text = t trimmed, completed = FALSE and                 *)
(* completedAt = null, the others unchanged.                               *)
C5_PostCreatesWithTrimmedText ==
    (req.route = "POST /todos" /\ req.body.hasText /\ Trim(req.body.text) # << >>
        /\ ~req.fail)
        => Created(Trim(req.body.text))

C5_Witness ==
    /\ req.route = "POST /todos"
    /\ req.body.hasText
    /\ req.body.text = <<" ", "a">>
    /\ ~req.fail
    /\ sent = <<200>>
    /\ DOMAIN prev # {}
    /\ Cardinality(DOMAIN todos) = Cardinality(DOMAIN prev) + 1

(* C6: POST /todos with an empty or omitted text answers 400 and leaves    *)
(* the stored todos as they were.                                          *)
C6_PostRejectsEmptyText ==
    (req.route = "POST /todos" /\ (~req.body.hasText \/ req.body.text = << >>))
        => (Status = 400 /\ todos = prev)

C6_Witness ==
    /\ req.route = "POST /todos"
    /\ ~req.body.hasText
    /\ ~req.fail
    /\ sent = <<400>>
    /\ DOMAIN prev # {}
    /\ todos = prev

(* C7: a well-formed id that matches no stored todo is answered 404 by     *)
(* GET, DELETE and PATCH /todos/:id and the store is left as it was; GET   *)
(* of a stored todo answers 200 with its stored text.                      *)
C7_NotFoundIs404 ==
    /\ (req.route \in IdRoutes /\ ObjectIdIsValid(req.id)
          /\ req.id \notin DOMAIN prev /\ ~req.fail)
          => (Status = 404 /\ todos = prev)
    /\ (req.route = "GET /todos/:id" /\ req.id \in DOMAIN prev /\ ~req.fail)
          => /\ Status = 200
             /\ resBody.kind = "todo"
             /\ resBody.id = req.id
             /\ resBody.text = prev[req.id].text

C7_Witness ==
    /\ req.route = "GET /todos/:id"
    /\ ObjectIdIsValid(req.id)
    /\ req.id \notin DOMAIN prev
    /\ DOMAIN prev # {}
    /\ ~req.fail
    /\ Status = 404
    /\ todos = prev

(* whether a token is one the server issued to a stored user *)
Resolves(token) ==
    /\ token.present
    /\ token.signed
    /\ token.uid \in DOMAIN users
    /\ token.serial <= Len(users[token.uid].tokens)

(* C8: GET /users/me goes through the authentication middleware: a         *)
(* missing, tampered or unresolved token is answered 401 with an empty     *)
(* body and the handler does not run; the handler runs only for a          *)
(* resolved token and answers 200 with that user's id and email.           *)
C8_UsersMeAuthenticated ==
    req.route = "GET /users/me"
        => /\ stages[1] = "authenticate"
           /\ (~Resolves(req.token) \/ req.fail)
                 => (sent = <<401>> /\ resBody = EmptyBody
                       /\ stages = <<"authenticate">>)
           /\ (Resolves(req.token) /\ ~req.fail)
                 => /\ sent = <<200>>
                    /\ stages = <<"authenticate", "handler">>
                    /\ resBody.kind = "user"
                    /\ resBody.id = req.token.uid
                    /\ resBody.email = users[req.token.uid].email

C8_Witness ==
    /\ req.route = "GET /users/me"
    /\ Resolves(req.token)
    /\ req.token.serial = MaxTokens
    /\ stages = <<"authenticate", "handler">>
    /\ sent = <<200>>
    /\ resBody.id = req.token.uid

(* C9: every request is answered by exactly one res.send: a handler that   *)
(* has sent a response sends no second one.                                *)
C9_ExactlyOneSend == req.route # "none" => Len(sent) = 1

CompletedAtMatchesCompleted ==
    \A i \in DOMAIN todos : (todos[i].completedAt # Null) <=> todos[i].completed

(* C10 as stated: completedAt is non-null exactly when completed is true,  *)
(* and a timestamp is written to completedAt exactly by an update that     *)
(* takes completed from false to true.                                     *)
C10_CompletedAtSetOnTransition ==
    /\ CompletedAtMatchesCompleted
    /\ \A i \in DOMAIN todos \cap DOMAIN prev :
          (todos[i].completedAt # Null /\ todos[i].completedAt # prev[i].completedAt)
             <=> (~prev[i].completed /\ todos[i].completed)

(* C10 as amended: completedAt is non-null exactly when completed is true, *)
(* and a timestamp is written to completedAt by every update whose         *)
(* completed is the boolean true, also of a todo that is completed         *)
(* already, and by nothing else.                                           *)
C10_CompletedAtSetOnEveryTrue ==
    /\ CompletedAtMatchesCompleted
    /\ \A i \in DOMAIN todos \cap DOMAIN prev :
          IF /\ req.route = "PATCH /todos/:id"
             /\ req.id = i
             /\ req.body.completed = "true"
             /\ ~req.fail
            THEN todos[i].completedAt = req.at
            ELSE todos[i].completedAt \in {Null, prev[i].completedAt}
    /\ \A i \in DOMAIN todos \ DOMAIN prev : todos[i].completedAt = Null

C10_Witness ==
    /\ req.route = "PATCH /todos/:id"
    /\ req.id \in DOMAIN prev
    /\ req.body.completed = "true"
    /\ ~req.fail
    /\ prev[req.id].completed
    /\ todos[req.id].completed
    /\ todos[req.id].completedAt # prev[req.id].completedAt

====
